---- MODULE Spec2Model ----
(***************************************************************************)
(* Roulette betting-strategy simulators of project/Project_functions.py:   *)
(* no_strategy, martingale_strategy, fibonacci_strategy,                   *)
(* d_alembert_strategy and the two table-limit variants.                   *)
(*                                                                         *)
(* One behaviour is one call of one of the six functions.  Init is the     *)
(* state after the function's initialisation lines, one action is one      *)
(* iteration of the loop over data.iterrows() (the whole inner loop over   *)
(* the four bet types), and Return is the return statement.                *)
(***************************************************************************)
EXTENDS Integers, Sequences, FiniteSets, TLC

(* ---------------------------------------------------------------------- *)
(* Bounds of the model                                                     *)
(* ---------------------------------------------------------------------- *)
\* longest spin sequence handed to the deterministic simulators
MaxSpins == 4
\* longest spin sequence handed to no_strategy (16 random bets per spin)
MaxRandomSpins == 2
\* longest spin sequence handed to the table-limit variants
MaxLimitSpins == 3
\* longest table_limits list
MaxLimits == 2

\* random.randint(5, 20)
RandomLow == 5
RandomHigh == 20

\* the iteration order of the dict literals {"red", "black", "even", "odd"}
BetOrder == <<"red", "black", "even", "odd">>
BetTypes == {BetOrder[k] : k \in 1..Len(BetOrder)}

\* A row of data: the columns "Red Bet Win", ..., "Odd Bet Win" (1 = win).
\* The rows a wheel produces (zero, colour x parity) and the all-win row.
MkRow(r, b, e, o) == [red |-> r, black |-> b, even |-> e, odd |-> o]
Rows ==
  { MkRow(0, 0, 0, 0), MkRow(1, 1, 1, 1),
    MkRow(1, 0, 1, 0), MkRow(1, 0, 0, 1),
    MkRow(0, 1, 1, 0), MkRow(0, 1, 0, 1) }

\* initial_bet of the four base simulators / of the table-limit variants
InitialBets == {1, 5, 10}
LimitInitialBets == {1, 5}
TableLimitValues == {1, 10}

SeqsUpTo(S, n) == UNION { [1..k -> S] : k \in 0..n }

\* the value of a name the function does not bind
None == "None"

Last(s) == s[Len(s)]
Max(a, b) == IF a >= b THEN a ELSE b
Min(a, b) == IF a <= b THEN a ELSE b
Abs(a) == IF a >= 0 THEN a ELSE -a

\* row[f"{bet_type.capitalize()} Bet Win"] == 1
Win(row, bet_type) == row[bet_type] = 1

\* {bet_type: v for bet_type in ["red", "black", "even", "odd"]}
Dict(v) == [t \in BetTypes |-> v]

\* mutant: the new balance overwrites the last entry instead of being appended
AppendBalance_Overwrite(balances, bet_type, delta) ==
  [balances EXCEPT ![bet_type] = [@ EXCEPT ![Len(@)] = @ + delta]]

\* balances[bet_type].append(balances[bet_type][-1] + delta)
AppendBalance(balances, bet_type, delta) ==
  [balances EXCEPT ![bet_type] = Append(@, Last(@) + delta)]

(* ---------------------------------------------------------------------- *)
(* no_strategy                                                             *)
(* ---------------------------------------------------------------------- *)
\* mutant: the upper end is exclusive, as with random.randrange(5, 20)
RandomBets_Exclusive == RandomLow..(RandomHigh - 1)

\* the set random.randint(5, 20) draws from
RandomBets == RandomLow..RandomHigh

\* bet = initial_bet if spin == 0 else random.randint(5, 20)
no_strategy_bet(spin, ib, drawn) == IF spin = 0 THEN ib ELSE drawn

\* the four appends of one row, all with the same bet
no_strategy_row(bal, row, bet) ==
  LET b1 == AppendBalance(bal, "red", IF Win(row, "red") THEN bet ELSE -bet)
      b2 == AppendBalance(b1, "black", IF Win(row, "black") THEN bet ELSE -bet)
      b3 == AppendBalance(b2, "even", IF Win(row, "even") THEN bet ELSE -bet)
      b4 == AppendBalance(b3, "odd", IF Win(row, "odd") THEN bet ELSE -bet)
  IN b4

(* ---------------------------------------------------------------------- *)
(* martingale_strategy                                                     *)
(* ---------------------------------------------------------------------- *)
\* mutant: a win does not reset the bet
martingale_strategy_bet_NoReset(st, row, bet_type, ib) ==
  LET bet == st.bets[bet_type]
  IN IF Win(row, bet_type)
     THEN [balances |-> AppendBalance(st.balances, bet_type, bet),
           bets |-> st.bets]
     ELSE [balances |-> AppendBalance(st.balances, bet_type, -bet),
           bets |-> [st.bets EXCEPT ![bet_type] = @ * 2]]

\* mutant: a win resets the bet of every bet type
martingale_strategy_bet_ResetAll(st, row, bet_type, ib) ==
  LET bet == st.bets[bet_type]
  IN IF Win(row, bet_type)
     THEN [balances |-> AppendBalance(st.balances, bet_type, bet),
           bets |-> Dict(ib)]
     ELSE [balances |-> AppendBalance(st.balances, bet_type, -bet),
           bets |-> [st.bets EXCEPT ![bet_type] = @ * 2]]

\* mutant: the progression is inverted, a win doubles and a loss resets
martingale_strategy_bet_Inverted(st, row, bet_type, ib) ==
  LET bet == st.bets[bet_type]
  IN IF Win(row, bet_type)
     THEN [balances |-> AppendBalance(st.balances, bet_type, bet),
           bets |-> [st.bets EXCEPT ![bet_type] = @ * 2]]
     ELSE [balances |-> AppendBalance(st.balances, bet_type, -bet),
           bets |-> [st.bets EXCEPT ![bet_type] = ib]]

\* mutant: a loss adds initial_bet to the bet instead of doubling it
martingale_strategy_bet_Additive(st, row, bet_type, ib) ==
  LET bet == st.bets[bet_type]
  IN IF Win(row, bet_type)
     THEN [balances |-> AppendBalance(st.balances, bet_type, bet),
           bets |-> [st.bets EXCEPT ![bet_type] = ib]]
     ELSE [balances |-> AppendBalance(st.balances, bet_type, -bet),
           bets |-> [st.bets EXCEPT ![bet_type] = @ + ib]]

\* body of the inner loop for one bet type; st = [balances, bets]
martingale_strategy_bet(st, row, bet_type, ib) ==
  LET bet == st.bets[bet_type]
  IN IF Win(row, bet_type)
     THEN [balances |-> AppendBalance(st.balances, bet_type, bet),
           bets |-> [st.bets EXCEPT ![bet_type] = ib]]
     ELSE [balances |-> AppendBalance(st.balances, bet_type, -bet),
           bets |-> [st.bets EXCEPT ![bet_type] = @ * 2]]

martingale_strategy_row(st, row, ib) ==
  LET s1 == martingale_strategy_bet(st, row, BetOrder[1], ib)
      s2 == martingale_strategy_bet(s1, row, BetOrder[2], ib)
      s3 == martingale_strategy_bet(s2, row, BetOrder[3], ib)
      s4 == martingale_strategy_bet(s3, row, BetOrder[4], ib)
  IN s4

(* ---------------------------------------------------------------------- *)
(* fibonacci_strategy                                                      *)
(* ---------------------------------------------------------------------- *)
\* mutant: the new term doubles the last term
ExtendSequence_Double(sequence) ==
  Append(sequence, sequence[Len(sequence)] + sequence[Len(sequence)])

\* sequences[bet_type].append(sequences[bet_type][-1] + sequences[bet_type][-2])
ExtendSequence(sequence) ==
  Append(sequence, sequence[Len(sequence)] + sequence[Len(sequence) - 1])

\* Python's list index i is position i + 1 of the TLA+ sequence
At(sequence, i) == sequence[i + 1]

\* mutant: a win retreats one step instead of two
fibonacci_strategy_bet_RetreatOne(st, row, bet_type, ib) ==
  LET current_index == st.indices[bet_type]
      bet == At(st.sequences[bet_type], current_index) * ib
  IN IF Win(row, bet_type)
     THEN [balances |-> AppendBalance(st.balances, bet_type, bet),
           sequences |-> st.sequences,
           indices |-> [st.indices EXCEPT ![bet_type] = Max(0, current_index - 1)]]
     ELSE [balances |-> AppendBalance(st.balances, bet_type, -bet),
           sequences |->
             IF current_index + 1 >= Len(st.sequences[bet_type])
             THEN [st.sequences EXCEPT ![bet_type] = ExtendSequence(@)]
             ELSE st.sequences,
           indices |-> [st.indices EXCEPT ![bet_type] = @ + 1]]

\* body of the inner loop for one bet type; st = [balances, sequences, indices]
fibonacci_strategy_bet(st, row, bet_type, ib) ==
  LET current_index == st.indices[bet_type]
      bet == At(st.sequences[bet_type], current_index) * ib
  IN IF Win(row, bet_type)
     THEN [balances |-> AppendBalance(st.balances, bet_type, bet),
           sequences |-> st.sequences,
           indices |-> [st.indices EXCEPT ![bet_type] = Max(0, current_index - 2)]]
     ELSE [balances |-> AppendBalance(st.balances, bet_type, -bet),
           sequences |->
             IF current_index + 1 >= Len(st.sequences[bet_type])
             THEN [st.sequences EXCEPT ![bet_type] = ExtendSequence(@)]
             ELSE st.sequences,
           indices |-> [st.indices EXCEPT ![bet_type] = @ + 1]]

fibonacci_strategy_row(st, row, ib) ==
  LET s1 == fibonacci_strategy_bet(st, row, BetOrder[1], ib)
      s2 == fibonacci_strategy_bet(s1, row, BetOrder[2], ib)
      s3 == fibonacci_strategy_bet(s2, row, BetOrder[3], ib)
      s4 == fibonacci_strategy_bet(s3, row, BetOrder[4], ib)
  IN s4

(* ---------------------------------------------------------------------- *)
(* d_alembert_strategy                                                     *)
(* ---------------------------------------------------------------------- *)
\* mutant: a win subtracts initial_bet without the floor
d_alembert_strategy_bet_NoFloor(st, row, bet_type, ib) ==
  LET bet == st.bets[bet_type]
  IN IF Win(row, bet_type)
     THEN [balances |-> AppendBalance(st.balances, bet_type, bet),
           bets |-> [st.bets EXCEPT ![bet_type] = bet - ib]]
     ELSE [balances |-> AppendBalance(st.balances, bet_type, -bet),
           bets |-> [st.bets EXCEPT ![bet_type] = @ + ib]]

\* mutant: a loss leaves the bet unchanged
d_alembert_strategy_bet_LossKeeps(st, row, bet_type, ib) ==
  LET bet == st.bets[bet_type]
  IN IF Win(row, bet_type)
     THEN [balances |-> AppendBalance(st.balances, bet_type, bet),
           bets |-> [st.bets EXCEPT ![bet_type] = Max(ib, bet - ib)]]
     ELSE [balances |-> AppendBalance(st.balances, bet_type, -bet),
           bets |-> st.bets]

\* body of the inner loop for one bet type; st = [balances, bets]
d_alembert_strategy_bet(st, row, bet_type, ib) ==
  LET bet == st.bets[bet_type]
  IN IF Win(row, bet_type)
     THEN [balances |-> AppendBalance(st.balances, bet_type, bet),
           bets |-> [st.bets EXCEPT ![bet_type] = Max(ib, bet - ib)]]
     ELSE [balances |-> AppendBalance(st.balances, bet_type, -bet),
           bets |-> [st.bets EXCEPT ![bet_type] = @ + ib]]

d_alembert_strategy_row(st, row, ib) ==
  LET s1 == d_alembert_strategy_bet(st, row, BetOrder[1], ib)
      s2 == d_alembert_strategy_bet(s1, row, BetOrder[2], ib)
      s3 == d_alembert_strategy_bet(s2, row, BetOrder[3], ib)
      s4 == d_alembert_strategy_bet(s3, row, BetOrder[4], ib)
  IN s4

(* ---------------------------------------------------------------------- *)
(* martingale_strategy_with_table_limits                                   *)
(* ---------------------------------------------------------------------- *)
\* results = {limit: {bet_type: [0] for bet_type in [...]} for limit in table_limits}
InitResults(limits) ==
  [limit \in {limits[k] : k \in 1..Len(limits)} |-> Dict(<<0>>)]

\* results[table_limit][bet_type].append(results[table_limit][bet_type][-1] + delta)
AppendResult(res, table_limit, bet_type, delta) ==
  [res EXCEPT ![table_limit] = AppendBalance(@, bet_type, delta)]

\* mutant: neither the wager nor the doubled bet is capped
martingale_limits_bet_NoCap(st, row, bet_type, ib, table_limit) ==
  LET bet == st.bets[bet_type]
  IN IF Win(row, bet_type)
     THEN [results |-> AppendResult(st.results, table_limit, bet_type, bet),
           bets |-> [st.bets EXCEPT ![bet_type] = ib]]
     ELSE [results |-> AppendResult(st.results, table_limit, bet_type, -bet),
           bets |-> [st.bets EXCEPT ![bet_type] = @ * 2]]

\* mutant: only the wager is capped, the stored bet doubles without a cap
martingale_limits_bet_WagerOnlyCap(st, row, bet_type, ib, table_limit) ==
  LET bet == Min(st.bets[bet_type], table_limit)
  IN IF Win(row, bet_type)
     THEN [results |-> AppendResult(st.results, table_limit, bet_type, bet),
           bets |-> [st.bets EXCEPT ![bet_type] = ib]]
     ELSE [results |-> AppendResult(st.results, table_limit, bet_type, -bet),
           bets |-> [st.bets EXCEPT ![bet_type] = @ * 2]]

\* mutant: a doubled bet above the limit falls back to initial_bet
martingale_limits_bet_ResetAtLimit(st, row, bet_type, ib, table_limit) ==
  LET bet == Min(st.bets[bet_type], table_limit)
  IN IF Win(row, bet_type)
     THEN [results |-> AppendResult(st.results, table_limit, bet_type, bet),
           bets |-> [st.bets EXCEPT ![bet_type] = ib]]
     ELSE [results |-> AppendResult(st.results, table_limit, bet_type, -bet),
           bets |-> [st.bets EXCEPT ![bet_type] =
                       IF @ * 2 > table_limit THEN ib ELSE @ * 2]]

\* body of the inner loop for one bet type; st = [results, bets]
martingale_limits_bet(st, row, bet_type, ib, table_limit) ==
  LET bet == Min(st.bets[bet_type], table_limit)
  IN IF Win(row, bet_type)
     THEN [results |-> AppendResult(st.results, table_limit, bet_type, bet),
           bets |-> [st.bets EXCEPT ![bet_type] = ib]]
     ELSE [results |-> AppendResult(st.results, table_limit, bet_type, -bet),
           bets |-> [st.bets EXCEPT ![bet_type] = Min(@ * 2, table_limit)]]

martingale_limits_row(st, row, ib, table_limit) ==
  LET s1 == martingale_limits_bet(st, row, BetOrder[1], ib, table_limit)
      s2 == martingale_limits_bet(s1, row, BetOrder[2], ib, table_limit)
      s3 == martingale_limits_bet(s2, row, BetOrder[3], ib, table_limit)
      s4 == martingale_limits_bet(s3, row, BetOrder[4], ib, table_limit)
  IN s4

(* ---------------------------------------------------------------------- *)
(* fibonacci_strategy_with_table_limits                                    *)
(* ---------------------------------------------------------------------- *)
\* mutant: the wager is not capped
fibonacci_limits_bet_NoCap(st, row, bet_type, ib, table_limit) ==
  LET current_index == st.indices[bet_type]
      bet == At(st.sequences[bet_type], current_index) * ib
  IN IF Win(row, bet_type)
     THEN [results |-> AppendResult(st.results, table_limit, bet_type, bet),
           sequences |-> st.sequences,
           indices |-> [st.indices EXCEPT ![bet_type] = Max(0, current_index - 2)]]
     ELSE [results |-> AppendResult(st.results, table_limit, bet_type, -bet),
           sequences |->
             IF current_index + 1 >= Len(st.sequences[bet_type])
             THEN [st.sequences EXCEPT ![bet_type] = ExtendSequence(@)]
             ELSE st.sequences,
           indices |-> [st.indices EXCEPT ![bet_type] = @ + 1]]

\* mutant: the progression is capped too, a loss at the limit does not advance
fibonacci_limits_bet_CappedIndex(st, row, bet_type, ib, table_limit) ==
  LET current_index == st.indices[bet_type]
      uncapped == At(st.sequences[bet_type], current_index) * ib
      bet == Min(uncapped, table_limit)
  IN IF Win(row, bet_type)
     THEN [results |-> AppendResult(st.results, table_limit, bet_type, bet),
           sequences |-> st.sequences,
           indices |-> [st.indices EXCEPT ![bet_type] = Max(0, current_index - 2)]]
     ELSE IF uncapped >= table_limit
     THEN [results |-> AppendResult(st.results, table_limit, bet_type, -bet),
           sequences |-> st.sequences,
           indices |-> st.indices]
     ELSE [results |-> AppendResult(st.results, table_limit, bet_type, -bet),
           sequences |->
             IF current_index + 1 >= Len(st.sequences[bet_type])
             THEN [st.sequences EXCEPT ![bet_type] = ExtendSequence(@)]
             ELSE st.sequences,
           indices |-> [st.indices EXCEPT ![bet_type] = @ + 1]]

\* body of the inner loop for one bet type; st = [results, sequences, indices]
fibonacci_limits_bet(st, row, bet_type, ib, table_limit) ==
  LET current_index == st.indices[bet_type]
      bet == Min(At(st.sequences[bet_type], current_index) * ib, table_limit)
  IN IF Win(row, bet_type)
     THEN [results |-> AppendResult(st.results, table_limit, bet_type, bet),
           sequences |-> st.sequences,
           indices |-> [st.indices EXCEPT ![bet_type] = Max(0, current_index - 2)]]
     ELSE [results |-> AppendResult(st.results, table_limit, bet_type, -bet),
           sequences |->
             IF current_index + 1 >= Len(st.sequences[bet_type])
             THEN [st.sequences EXCEPT ![bet_type] = ExtendSequence(@)]
             ELSE st.sequences,
           indices |-> [st.indices EXCEPT ![bet_type] = @ + 1]]

fibonacci_limits_row(st, row, ib, table_limit) ==
  LET s1 == fibonacci_limits_bet(st, row, BetOrder[1], ib, table_limit)
      s2 == fibonacci_limits_bet(s1, row, BetOrder[2], ib, table_limit)
      s3 == fibonacci_limits_bet(s2, row, BetOrder[3], ib, table_limit)
      s4 == fibonacci_limits_bet(s3, row, BetOrder[4], ib, table_limit)
  IN s4

(* ---------------------------------------------------------------------- *)
(* The table-limit variants called with table_limits = [table_limit]       *)
(* ---------------------------------------------------------------------- *)
\* the loop over data.iterrows() from row k on
RECURSIVE martingale_limits_pass(_, _, _, _, _)
martingale_limits_pass(st, rows, k, ib, table_limit) ==
  IF k > Len(rows) THEN st
  ELSE martingale_limits_pass(martingale_limits_row(st, rows[k], ib, table_limit),
                              rows, k + 1, ib, table_limit)

\* martingale_strategy_with_table_limits(data, initial_bet, [table_limit])
martingale_limits_alone(rows, ib, table_limit) ==
  martingale_limits_pass([results |-> InitResults(<<table_limit>>),
                          bets |-> Dict(ib)],
                         rows, 1, ib, table_limit).results

RECURSIVE fibonacci_limits_pass(_, _, _, _, _)
fibonacci_limits_pass(st, rows, k, ib, table_limit) ==
  IF k > Len(rows) THEN st
  ELSE fibonacci_limits_pass(fibonacci_limits_row(st, rows[k], ib, table_limit),
                             rows, k + 1, ib, table_limit)

\* fibonacci_strategy_with_table_limits(data, initial_bet, [table_limit])
fibonacci_limits_alone(rows, ib, table_limit) ==
  fibonacci_limits_pass([results |-> InitResults(<<table_limit>>),
                         sequences |-> Dict(<<1, 1>>), indices |-> Dict(0)],
                        rows, 1, ib, table_limit).results

(* ---------------------------------------------------------------------- *)
(* The unconstrained strategies as functions of (data, initial_bet)        *)
(* ---------------------------------------------------------------------- *)
\* the loop over data.iterrows() from row k on
RECURSIVE martingale_strategy_pass(_, _, _, _)
martingale_strategy_pass(st, rows, k, ib) ==
  IF k > Len(rows) THEN st
  ELSE martingale_strategy_pass(martingale_strategy_row(st, rows[k], ib),
                                rows, k + 1, ib)

\* martingale_strategy(rows, ib): the state when the loop ends
martingale_strategy_call(rows, ib) ==
  martingale_strategy_pass([balances |-> Dict(<<0>>), bets |-> Dict(ib)],
                           rows, 1, ib)

RECURSIVE fibonacci_strategy_pass(_, _, _, _)
fibonacci_strategy_pass(st, rows, k, ib) ==
  IF k > Len(rows) THEN st
  ELSE fibonacci_strategy_pass(fibonacci_strategy_row(st, rows[k], ib),
                               rows, k + 1, ib)

\* fibonacci_strategy(rows, ib): the state when the loop ends
fibonacci_strategy_call(rows, ib) ==
  fibonacci_strategy_pass([balances |-> Dict(<<0>>),
                           sequences |-> Dict(<<1, 1>>), indices |-> Dict(0)],
                          rows, 1, ib)

(* ---------------------------------------------------------------------- *)
(* The inner-loop body of one bet type, repeated over the rows             *)
(* ---------------------------------------------------------------------- *)
RECURSIVE martingale_strategy_track(_, _, _, _, _)
martingale_strategy_track(st, rows, k, bet_type, ib) ==
  IF k > Len(rows) THEN st
  ELSE martingale_strategy_track(
         martingale_strategy_bet(st, rows[k], bet_type, ib),
         rows, k + 1, bet_type, ib)

RECURSIVE fibonacci_strategy_track(_, _, _, _, _)
fibonacci_strategy_track(st, rows, k, bet_type, ib) ==
  IF k > Len(rows) THEN st
  ELSE fibonacci_strategy_track(
         fibonacci_strategy_bet(st, rows[k], bet_type, ib),
         rows, k + 1, bet_type, ib)

RECURSIVE d_alembert_strategy_track(_, _, _, _, _)
d_alembert_strategy_track(st, rows, k, bet_type, ib) ==
  IF k > Len(rows) THEN st
  ELSE d_alembert_strategy_track(
         d_alembert_strategy_bet(st, rows[k], bet_type, ib),
         rows, k + 1, bet_type, ib)

RECURSIVE martingale_limits_track(_, _, _, _, _, _)
martingale_limits_track(st, rows, k, bet_type, ib, table_limit) ==
  IF k > Len(rows) THEN st
  ELSE martingale_limits_track(
         martingale_limits_bet(st, rows[k], bet_type, ib, table_limit),
         rows, k + 1, bet_type, ib, table_limit)

RECURSIVE fibonacci_limits_track(_, _, _, _, _, _)
fibonacci_limits_track(st, rows, k, bet_type, ib, table_limit) ==
  IF k > Len(rows) THEN st
  ELSE fibonacci_limits_track(
         fibonacci_limits_bet(st, rows[k], bet_type, ib, table_limit),
         rows, k + 1, bet_type, ib, table_limit)

(* ---------------------------------------------------------------------- *)
(* State                                                                   *)
(* ---------------------------------------------------------------------- *)
VARIABLES
  fn,            \* the function that was called
  data,          \* the rows of the DataFrame
  initial_bet,
  table_limits,  \* the list handed to a table-limit variant, else None
  pc,            \* "loop" or "returned"
  spin,          \* rows consumed by the current pass over data
  limit_idx,     \* position of the loop over table_limits (0: not entered)
  balances,      \* bet type -> trajectory (the four base functions)
  bets,          \* bet type -> current bet (martingale, d'alembert)
  sequences,     \* bet type -> Fibonacci sequence
  indices,       \* bet type -> index into its sequence
  results        \* limit -> bet type -> trajectory (table-limit variants)

vars == <<fn, data, initial_bet, table_limits, pc, spin, limit_idx,
          balances, bets, sequences, indices, results>>

BaseFns == {"no_strategy", "martingale_strategy", "fibonacci_strategy",
            "d_alembert_strategy"}
LimitFns == {"martingale_strategy_with_table_limits",
             "fibonacci_strategy_with_table_limits"}

InitNoStrategy ==
  /\ fn = "no_strategy"
  /\ data \in SeqsUpTo(Rows, MaxRandomSpins)
  /\ initial_bet \in InitialBets
  /\ table_limits = None
  /\ pc = "loop" /\ spin = 0 /\ limit_idx = 0
  /\ balances = Dict(<<0>>)
  /\ bets = None /\ sequences = None /\ indices = None /\ results = None

InitMartingale ==
  /\ fn = "martingale_strategy"
  /\ data \in SeqsUpTo(Rows, MaxSpins)
  /\ initial_bet \in InitialBets
  /\ table_limits = None
  /\ pc = "loop" /\ spin = 0 /\ limit_idx = 0
  /\ balances = Dict(<<0>>)
  /\ bets = Dict(initial_bet)
  /\ sequences = None /\ indices = None /\ results = None

InitFibonacci ==
  /\ fn = "fibonacci_strategy"
  /\ data \in SeqsUpTo(Rows, MaxSpins)
  /\ initial_bet \in InitialBets
  /\ table_limits = None
  /\ pc = "loop" /\ spin = 0 /\ limit_idx = 0
  /\ balances = Dict(<<0>>)
  /\ sequences = Dict(<<1, 1>>)
  /\ indices = Dict(0)
  /\ bets = None /\ results = None

InitDAlembert ==
  /\ fn = "d_alembert_strategy"
  /\ data \in SeqsUpTo(Rows, MaxSpins)
  /\ initial_bet \in InitialBets
  /\ table_limits = None
  /\ pc = "loop" /\ spin = 0 /\ limit_idx = 0
  /\ balances = Dict(<<0>>)
  /\ bets = Dict(initial_bet)
  /\ sequences = None /\ indices = None /\ results = None

\* the state at the head of the loop over table_limits, before its first pass
InitMartingaleLimits ==
  /\ fn = "martingale_strategy_with_table_limits"
  /\ data \in SeqsUpTo(Rows, MaxLimitSpins)
  /\ initial_bet \in LimitInitialBets
  /\ table_limits \in SeqsUpTo(TableLimitValues, MaxLimits)
  /\ pc = "loop" /\ spin = 0 /\ limit_idx = 0
  /\ results = InitResults(table_limits)
  /\ balances = None /\ bets = None /\ sequences = None /\ indices = None

InitFibonacciLimits ==
  /\ fn = "fibonacci_strategy_with_table_limits"
  /\ data \in SeqsUpTo(Rows, MaxLimitSpins)
  /\ initial_bet \in LimitInitialBets
  /\ table_limits \in SeqsUpTo(TableLimitValues, MaxLimits)
  /\ pc = "loop" /\ spin = 0 /\ limit_idx = 0
  /\ results = InitResults(table_limits)
  /\ balances = None /\ bets = None /\ sequences = None /\ indices = None

\* for spin, (_, row) in enumerate(data.iterrows()): ...
NoStrategySpin ==
  /\ fn = "no_strategy" /\ pc = "loop" /\ spin < Len(data)
  /\ \E drawn \in RandomBets :
       balances' = no_strategy_row(balances, data[spin + 1],
                                   no_strategy_bet(spin, initial_bet, drawn))
  /\ spin' = spin + 1
  /\ UNCHANGED <<fn, data, initial_bet, table_limits, pc, limit_idx,
                 bets, sequences, indices, results>>

\* for _, row in data.iterrows(): for bet_type in balances.keys(): ...
MartingaleSpin ==
  /\ fn = "martingale_strategy" /\ pc = "loop" /\ spin < Len(data)
  /\ LET s == martingale_strategy_row([balances |-> balances, bets |-> bets],
                                      data[spin + 1], initial_bet)
     IN balances' = s.balances /\ bets' = s.bets
  /\ spin' = spin + 1
  /\ UNCHANGED <<fn, data, initial_bet, table_limits, pc, limit_idx,
                 sequences, indices, results>>

FibonacciSpin ==
  /\ fn = "fibonacci_strategy" /\ pc = "loop" /\ spin < Len(data)
  /\ LET s == fibonacci_strategy_row(
                [balances |-> balances, sequences |-> sequences, indices |-> indices],
                data[spin + 1], initial_bet)
     IN balances' = s.balances /\ sequences' = s.sequences /\ indices' = s.indices
  /\ spin' = spin + 1
  /\ UNCHANGED <<fn, data, initial_bet, table_limits, pc, limit_idx,
                 bets, results>>

DAlembertSpin ==
  /\ fn = "d_alembert_strategy" /\ pc = "loop" /\ spin < Len(data)
  /\ LET s == d_alembert_strategy_row([balances |-> balances, bets |-> bets],
                                      data[spin + 1], initial_bet)
     IN balances' = s.balances /\ bets' = s.bets
  /\ spin' = spin + 1
  /\ UNCHANGED <<fn, data, initial_bet, table_limits, pc, limit_idx,
                 sequences, indices, results>>

\* the pass over data of the current table limit (or none yet) is finished
PassDone == limit_idx = 0 \/ spin = Len(data)

\* for table_limit in table_limits: bets = {bet_type: initial_bet ...}
MartingaleLimitsNextLimit ==
  /\ fn = "martingale_strategy_with_table_limits" /\ pc = "loop"
  /\ PassDone /\ limit_idx < Len(table_limits)
  /\ limit_idx' = limit_idx + 1
  /\ spin' = 0
  /\ bets' = Dict(initial_bet)
  /\ UNCHANGED <<fn, data, initial_bet, table_limits, pc,
                 balances, sequences, indices, results>>

\* for _, row in data.iterrows(): for bet_type in bets.keys(): ...
MartingaleLimitsSpin ==
  /\ fn = "martingale_strategy_with_table_limits" /\ pc = "loop"
  /\ limit_idx >= 1 /\ spin < Len(data)
  /\ LET s == martingale_limits_row([results |-> results, bets |-> bets],
                                    data[spin + 1], initial_bet,
                                    table_limits[limit_idx])
     IN results' = s.results /\ bets' = s.bets
  /\ spin' = spin + 1
  /\ UNCHANGED <<fn, data, initial_bet, table_limits, pc, limit_idx,
                 balances, sequences, indices>>

\* for table_limit in table_limits: sequences = {...}; indices = {...}
FibonacciLimitsNextLimit ==
  /\ fn = "fibonacci_strategy_with_table_limits" /\ pc = "loop"
  /\ PassDone /\ limit_idx < Len(table_limits)
  /\ limit_idx' = limit_idx + 1
  /\ spin' = 0
  /\ sequences' = Dict(<<1, 1>>)
  /\ indices' = Dict(0)
  /\ UNCHANGED <<fn, data, initial_bet, table_limits, pc,
                 balances, bets, results>>

\* for _, row in data.iterrows(): for bet_type in sequences.keys(): ...
FibonacciLimitsSpin ==
  /\ fn = "fibonacci_strategy_with_table_limits" /\ pc = "loop"
  /\ limit_idx >= 1 /\ spin < Len(data)
  /\ LET s == fibonacci_limits_row(
                [results |-> results, sequences |-> sequences, indices |-> indices],
                data[spin + 1], initial_bet, table_limits[limit_idx])
     IN results' = s.results /\ sequences' = s.sequences /\ indices' = s.indices
  /\ spin' = spin + 1
  /\ UNCHANGED <<fn, data, initial_bet, table_limits, pc, limit_idx,
                 balances, bets>>

\* return results
ReturnResults ==
  /\ fn \in LimitFns /\ pc = "loop"
  /\ PassDone /\ limit_idx = Len(table_limits)
  /\ pc' = "returned"
  /\ UNCHANGED <<fn, data, initial_bet, table_limits, spin, limit_idx,
                 balances, bets, sequences, indices, results>>

\* return balances
Return ==
  /\ fn \in BaseFns /\ pc = "loop" /\ spin = Len(data)
  /\ pc' = "returned"
  /\ UNCHANGED <<fn, data, initial_bet, table_limits, spin, limit_idx,
                 balances, bets, sequences, indices, results>>

Init ==
  \/ InitNoStrategy
  \/ InitMartingale
  \/ InitFibonacci
  \/ InitDAlembert
  \/ InitMartingaleLimits
  \/ InitFibonacciLimits

Next ==
  \/ NoStrategySpin
  \/ MartingaleSpin
  \/ FibonacciSpin
  \/ DAlembertSpin
  \/ Return
  \/ MartingaleLimitsNextLimit
  \/ MartingaleLimitsSpin
  \/ FibonacciLimitsNextLimit
  \/ FibonacciLimitsSpin
  \/ ReturnResults

Spec == Init /\ [][Next]_vars

\* calls of martingale_strategy, fibonacci_strategy and d_alembert_strategy
InitProgressions == InitMartingale \/ InitFibonacci \/ InitDAlembert

NextProgressions ==
  \/ MartingaleSpin
  \/ FibonacciSpin
  \/ DAlembertSpin
  \/ Return

SpecProgressions == InitProgressions /\ [][NextProgressions]_vars

\* calls of the two table-limit variants
InitLimits == InitMartingaleLimits \/ InitFibonacciLimits

NextLimits ==
  \/ MartingaleLimitsNextLimit
  \/ MartingaleLimitsSpin
  \/ FibonacciLimitsNextLimit
  \/ FibonacciLimitsSpin
  \/ ReturnResults

SpecLimits == InitLimits /\ [][NextLimits]_vars

\* calls of every simulator that keeps a per-bet-type progression
InitTracked == InitProgressions \/ InitLimits

NextTracked == NextProgressions \/ NextLimits

SpecTracked == InitTracked /\ [][NextTracked]_vars

(* ---------------------------------------------------------------------- *)
(* Properties                                                              *)
(* ---------------------------------------------------------------------- *)
\* the amount staked on the k-th spin, read off a trajectory
Wager(traj, k) == Abs(traj[k + 1] - traj[k])

\* the bet type lost every one of the first n rows of data
LostAll(t, n) == \A k \in 1..n : ~Win(data[k], t)
WonAll(t, n) == \A k \in 1..n : Win(data[k], t)

\* C1: every base simulator keeps a trajectory of (spins consumed) + 1
\* entries that starts at 0; what it returns has Len(data) + 1 entries, and
\* <<0>> for empty data.
C1_TrajectoryLength ==
  fn \in BaseFns =>
    \A t \in BetTypes :
      /\ balances[t][1] = 0
      /\ Len(balances[t]) = spin + 1
      /\ pc = "returned" => Len(balances[t]) = Len(data) + 1
      /\ (pc = "returned" /\ data = << >>) => balances[t] = <<0>>

C1_Witness ==
  /\ fn = "d_alembert_strategy" /\ pc = "returned" /\ Len(data) = 3
  /\ \A t \in BetTypes : Len(balances[t]) = 4

\* C2: in martingale_strategy, after a spin the bet type lost, its next bet
\* is twice the bet just lost (and larger); after a spin it won, its next
\* bet is initial_bet.
C2_MartingaleProgression ==
  (fn = "martingale_strategy" /\ spin >= 1) =>
    \A t \in BetTypes :
      IF Win(data[spin], t)
      THEN bets[t] = initial_bet
      ELSE /\ bets[t] = 2 * (balances[t][spin] - balances[t][spin + 1])
           /\ bets[t] > balances[t][spin] - balances[t][spin + 1]

C2_Witness ==
  /\ fn = "martingale_strategy" /\ spin = 3
  /\ Win(data[1], "red") /\ LostAll("black", 3)
  /\ bets["black"] = 8 * initial_bet
  /\ ~Win(data[2], "red") /\ Win(data[3], "red") /\ bets["red"] = initial_bet

\* C3: in d_alembert_strategy the bet is never below initial_bet; a win sets
\* it to max(initial_bet, bet - initial_bet), a loss to bet + initial_bet.
C3_DAlembertFloor ==
  fn = "d_alembert_strategy" =>
    \A t \in BetTypes :
      /\ bets[t] >= initial_bet
      /\ spin >= 1 =>
           LET bet == Wager(balances[t], spin)
           IN IF Win(data[spin], t)
              THEN bets[t] = Max(initial_bet, bet - initial_bet)
              ELSE bets[t] = bet + initial_bet

\* two wins from the start: the floor keeps the bet at initial_bet
C3_Witness ==
  /\ fn = "d_alembert_strategy" /\ spin = 4
  /\ WonAll("red", 2) /\ bets["red"] = initial_bet
  /\ LostAll("odd", 2) /\ Win(data[3], "odd") /\ Win(data[4], "odd")
  /\ bets["odd"] = initial_bet

IsFibonacciPrefix(sequence) ==
  /\ Len(sequence) >= 2
  /\ sequence[1] = 1 /\ sequence[2] = 1
  /\ \A i \in 3..Len(sequence) : sequence[i] = sequence[i - 1] + sequence[i - 2]
  /\ \A i \in 2..Len(sequence) : sequence[i - 1] <= sequence[i]

\* C4: in fibonacci_strategy every bet type's sequence is a prefix of the
\* Fibonacci sequence seeded [1, 1], non-decreasing, and a step leaves it
\* unchanged or appends exactly one term.
C4_FibonacciSequence ==
  /\ [](fn = "fibonacci_strategy" =>
          \A t \in BetTypes : IsFibonacciPrefix(sequences[t]))
  /\ [][fn = "fibonacci_strategy" =>
          \A t \in BetTypes :
            \/ sequences'[t] = sequences[t]
            \/ /\ Len(sequences'[t]) = Len(sequences[t]) + 1
               /\ SubSeq(sequences'[t], 1, Len(sequences[t])) = sequences[t]]_vars

\* three losses, then a win: the index retreats, the sequence stays
C4_Witness ==
  /\ fn = "fibonacci_strategy" /\ spin = 4
  /\ LostAll("even", 3) /\ Win(data[4], "even")
  /\ sequences["even"] = <<1, 1, 2, 3>> /\ indices["even"] = 1
  /\ LostAll("red", 4) /\ sequences["red"] = <<1, 1, 2, 3, 5>>

\* C5: in martingale_strategy_with_table_limits no stake recorded for limit
\* L exceeds L, and when L = initial_bet every stake is initial_bet.
C5_MartingaleWagerCapped ==
  fn = "martingale_strategy_with_table_limits" =>
    \A L \in DOMAIN results : \A t \in BetTypes :
      \A k \in 1..(Len(results[L][t]) - 1) :
        /\ Wager(results[L][t], k) <= L
        /\ L = initial_bet => Wager(results[L][t], k) = initial_bet

\* three losses under the limits 1 = initial_bet (flat stakes) and 10
C5_Witness ==
  /\ fn = "martingale_strategy_with_table_limits" /\ pc = "returned"
  /\ initial_bet = 1 /\ table_limits = <<1, 10>>
  /\ Len(data) = 3 /\ LostAll("red", 3)
  /\ results[1]["red"] = <<0, -1, -2, -3>>
  /\ results[10]["red"] = <<0, -1, -3, -7>>

\* C6: in fibonacci_strategy_with_table_limits no stake recorded for limit L
\* exceeds L, however far sequence[index] * initial_bet is above L.
C6_FibonacciWagerCapped ==
  fn = "fibonacci_strategy_with_table_limits" =>
    \A L \in DOMAIN results : \A t \in BetTypes :
      \A k \in 1..(Len(results[L][t]) - 1) : Wager(results[L][t], k) <= L

\* a losing streak: the index is at 3, the uncapped bet 15, the stakes 1
C6_Witness ==
  /\ fn = "fibonacci_strategy_with_table_limits" /\ pc = "returned"
  /\ initial_bet = 5 /\ table_limits = <<1>>
  /\ Len(data) = 3 /\ LostAll("black", 3)
  /\ indices["black"] = 3
  /\ At(sequences["black"], indices["black"]) * initial_bet = 15
  /\ results[1]["black"] = <<0, -1, -2, -3>>

\* C7: what a table-limit variant returns holds, for every limit of
\* table_limits and every bet type, a trajectory of Len(data) + 1 entries
\* that starts at 0.
C7_LimitTrajectoryLength ==
  (fn \in LimitFns /\ pc = "returned") =>
    \A i \in 1..Len(table_limits) :
      /\ table_limits[i] \in DOMAIN results
      /\ \A t \in BetTypes :
           /\ Len(results[table_limits[i]][t]) = Len(data) + 1
           /\ results[table_limits[i]][t][1] = 0

\* C8: the trajectories returned for a limit L are those of the call with
\* table_limits = [L], whatever else the list holds.
C8_LimitsIsolated ==
  (fn \in LimitFns /\ pc = "returned") =>
    \A L \in DOMAIN results :
      results[L] =
        IF fn = "martingale_strategy_with_table_limits"
        THEN martingale_limits_alone(data, initial_bet, L)[L]
        ELSE fibonacci_limits_alone(data, initial_bet, L)[L]

\* the stakes of the next spin of no_strategy can be w[t] for each bet type t
CanWager(w) ==
  ENABLED (/\ NoStrategySpin
           /\ \A t \in BetTypes :
                Abs(Last(balances'[t]) - Last(balances[t])) = w[t])

\* C9 as stated: the first stake is initial_bet, later stakes are in
\* [5, 20], and on a later spin every combination of four stakes, one per
\* bet type, is possible.
C9_IndependentAcrossBetTypes ==
  fn = "no_strategy" =>
    /\ \A t \in BetTypes :
         \A k \in 1..spin :
           IF k = 1 THEN Wager(balances[t], k) = initial_bet
           ELSE Wager(balances[t], k) \in RandomLow..RandomHigh
    /\ (pc = "loop" /\ spin >= 1 /\ spin < Len(data)) =>
         \A w \in [BetTypes -> RandomLow..RandomHigh] : CanWager(w)

\* C9 amended: the first stake is initial_bet; on a later spin one integer
\* of [5, 20] is staked on all four bet types, and every integer of
\* [5, 20] is possible whatever the history.
C9_OneBetPerSpin ==
  fn = "no_strategy" =>
    /\ \A k \in 1..spin :
         \E bet \in (IF k = 1 THEN {initial_bet} ELSE RandomLow..RandomHigh) :
           \A t \in BetTypes : Wager(balances[t], k) = bet
    /\ (pc = "loop" /\ spin >= 1 /\ spin < Len(data)) =>
         \A bet \in RandomLow..RandomHigh : CanWager(Dict(bet))

\* the second spin staked 20 on every bet type after a first stake of 1
C9_Witness ==
  /\ fn = "no_strategy" /\ spin = 2 /\ initial_bet = 1
  /\ \A t \in BetTypes : Wager(balances[t], 1) = 1 /\ Wager(balances[t], 2) = 20

AllWin == \A k \in 1..Len(data) : \A t \in BetTypes : Win(data[k], t)

\* [0, b, 2b, ..., n*b]
Ramp(n, b) == [k \in 1..(n + 1) |-> (k - 1) * b]

\* C10 as stated: when every flag of every row is set, each of the four
\* base simulators returns [0, b, 2b, ..., n*b] for every bet type.
C10_AllWinRampEveryStrategy ==
  (fn \in BaseFns /\ pc = "returned" /\ AllWin) =>
    \A t \in BetTypes : balances[t] = Ramp(Len(data), initial_bet)

\* C10 amended: martingale, fibonacci and d'alembert return
\* [0, b, 2b, ..., n*b]; no_strategy returns a trajectory that rises by b
\* on the first spin and by an integer of [5, 20] on each later spin.
C10_AllWinRamp ==
  (fn \in BaseFns /\ pc = "returned" /\ AllWin) =>
    \A t \in BetTypes :
      IF fn = "no_strategy"
      THEN \A k \in 1..Len(data) :
             balances[t][k + 1] - balances[t][k] \in
               (IF k = 1 THEN {initial_bet} ELSE RandomLow..RandomHigh)
      ELSE balances[t] = Ramp(Len(data), initial_bet)

C10_Witness ==
  /\ fn = "d_alembert_strategy" /\ pc = "returned" /\ AllWin
  /\ initial_bet = 10 /\ Len(data) = 4
  /\ balances["red"] = <<0, 10, 20, 30, 40>>

\* the rows the current pass has consumed
Prefix == SubSeq(data, 1, spin)

\* the limit of the current pass of a table-limit variant
CurrentLimit == table_limits[limit_idx]

\* C11 as stated: during a pass of martingale_strategy_with_table_limits
\* the stored bet of every bet type is the bet martingale_strategy holds
\* after the same rows.
C11_SameBetAsUnconstrained ==
  (fn = "martingale_strategy_with_table_limits" /\ limit_idx >= 1) =>
    \A t \in BetTypes :
      bets[t] = martingale_strategy_call(Prefix, initial_bet).bets[t]

\* C11 amended: the stored bet is the bet of martingale_strategy at the
\* start and after a win, and min(that bet, limit) after a loss.
C11_BetCappedAfterLoss ==
  (fn = "martingale_strategy_with_table_limits" /\ limit_idx >= 1) =>
    LET unconstrained == martingale_strategy_call(Prefix, initial_bet).bets
    IN \A t \in BetTypes :
         bets[t] = IF spin >= 1 /\ ~Win(data[spin], t)
                   THEN Min(unconstrained[t], CurrentLimit)
                   ELSE unconstrained[t]

\* two losses under limit 10 with initial_bet 5: 10 stored, 20 unconstrained
C11_Witness ==
  /\ fn = "martingale_strategy_with_table_limits" /\ limit_idx >= 1
  /\ CurrentLimit = 10 /\ initial_bet = 5
  /\ spin = 2 /\ LostAll("red", 2)
  /\ bets["red"] = 10
  /\ martingale_strategy_call(Prefix, initial_bet).bets["red"] = 20

\* F(1) = F(2) = 1, F(n) = F(n-1) + F(n-2)
RECURSIVE Fib(_)
Fib(n) == IF n <= 2 THEN 1 ELSE Fib(n - 1) + Fib(n - 2)

\* F(1) + ... + F(k)
RECURSIVE FibSum(_)
FibSum(k) == IF k = 0 THEN 0 ELSE FibSum(k - 1) + Fib(k)

\* C12: in fibonacci_strategy the index always lies inside the sequence; a
\* spin stakes sequence[index] * initial_bet, a win moves the index to
\* max(0, index - 2) and a loss to index + 1; a bet type that has lost every
\* spin so far has staked F(1)*b, ..., F(k)*b.
C12_FibonacciIndex ==
  /\ [](fn = "fibonacci_strategy" =>
          \A t \in BetTypes :
            /\ 0 <= indices[t] /\ indices[t] < Len(sequences[t])
            /\ LostAll(t, spin) =>
                 \A k \in 1..spin :
                   /\ Wager(balances[t], k) = Fib(k) * initial_bet
                   /\ balances[t][k + 1] = -(initial_bet * FibSum(k)))
  /\ [][(fn = "fibonacci_strategy" /\ spin' = spin + 1) =>
          \A t \in BetTypes :
            LET bet == At(sequences[t], indices[t]) * initial_bet
            IN IF Win(data[spin + 1], t)
               THEN /\ Last(balances'[t]) = Last(balances[t]) + bet
                    /\ indices'[t] = (IF indices[t] >= 2 THEN indices[t] - 2 ELSE 0)
               ELSE /\ Last(balances'[t]) = Last(balances[t]) - bet
                    /\ indices'[t] = indices[t] + 1]_vars

\* three losses with initial_bet 1, then a win that retreats from 3 to 1
C12_Witness ==
  /\ fn = "fibonacci_strategy" /\ initial_bet = 1 /\ spin = 4
  /\ LostAll("red", 3) /\ Win(data[4], "red")
  /\ balances["red"] = <<0, -1, -2, -4, -1>>
  /\ indices["red"] = 1

\* C13: during every pass of fibonacci_strategy_with_table_limits the
\* indices and sequences are those fibonacci_strategy holds after the same
\* rows, and the stake just placed is min(sequence[index] * initial_bet,
\* limit) for the index and sequence fibonacci_strategy placed its stake with.
C13_SameProgressionAsUnconstrained ==
  (fn = "fibonacci_strategy_with_table_limits" /\ limit_idx >= 1) =>
    IF spin = 0
    THEN LET now == fibonacci_strategy_call(<< >>, initial_bet)
         IN indices = now.indices /\ sequences = now.sequences
    ELSE LET before == fibonacci_strategy_call(SubSeq(data, 1, spin - 1),
                                               initial_bet)
             now == fibonacci_strategy_row(before, data[spin], initial_bet)
         IN /\ indices = now.indices
            /\ sequences = now.sequences
            /\ \A t \in BetTypes :
                 LET traj == results[CurrentLimit][t]
                 IN Wager(traj, Len(traj) - 1) =
                      Min(At(before.sequences[t], before.indices[t]) * initial_bet,
                          CurrentLimit)

\* a losing streak under limit 1: the index reaches 3, the last stake is 1
C13_Witness ==
  /\ fn = "fibonacci_strategy_with_table_limits" /\ limit_idx >= 1
  /\ CurrentLimit = 1 /\ initial_bet = 5
  /\ spin = 3 /\ LostAll("odd", 3)
  /\ indices["odd"] = 3 /\ sequences["odd"] = <<1, 1, 2, 3>>
  /\ fibonacci_strategy_call(Prefix, initial_bet).indices["odd"] = 3
  /\ Wager(results[1]["odd"], Len(results[1]["odd"]) - 1) = 1

\* C14: in martingale_strategy_with_table_limits with limit >= initial_bet
\* a loss turns the stored bet into min(2 * bet, limit), a bet that has
\* reached the limit stays there on every further loss, and a win sets it
\* to initial_bet; limit 10, initial_bet 5 and three losses give
\* [0, -5, -15, -25].
C14_BetPinnedAtLimit ==
  /\ [][(/\ fn = "martingale_strategy_with_table_limits"
         /\ limit_idx >= 1 /\ spin' = spin + 1
         /\ CurrentLimit >= initial_bet) =>
          \A t \in BetTypes :
            IF Win(data[spin + 1], t)
            THEN bets'[t] = initial_bet
            ELSE /\ bets'[t] = (IF 2 * bets[t] <= CurrentLimit
                                THEN 2 * bets[t] ELSE CurrentLimit)
                 /\ bets[t] = CurrentLimit => bets'[t] = CurrentLimit]_vars
  /\ []((/\ fn = "martingale_strategy_with_table_limits"
         /\ limit_idx = 1 /\ CurrentLimit = 10 /\ initial_bet = 5
         /\ spin = 3) =>
          \A t \in BetTypes :
            LostAll(t, 3) => /\ results[10][t] = <<0, -5, -15, -25>>
                             /\ bets[t] = 10)

C14_Witness ==
  /\ fn = "martingale_strategy_with_table_limits"
  /\ limit_idx = 1 /\ CurrentLimit = 10 /\ initial_bet = 5
  /\ spin = 3 /\ LostAll("even", 3)
  /\ bets["even"] = 10
  /\ results[10]["even"] = <<0, -5, -15, -25>>

\* the balances -b * (2^k - 1) and -b * k * (k + 1) / 2 after k losses
MartingaleLosses(b, k) == -(b * (2^k - 1))
DAlembertLosses(b, k) == -((b * k * (k + 1)) \div 2)

AllLossFormulas ==
  \A t \in BetTypes :
    LostAll(t, spin) =>
      \A k \in 0..spin :
        /\ fn = "martingale_strategy" =>
             balances[t][k + 1] = MartingaleLosses(initial_bet, k)
        /\ fn = "d_alembert_strategy" =>
             balances[t][k + 1] = DAlembertLosses(initial_bet, k)

\* C15 as stated: the two formulas, and for b = 5 and three losing spins
\* the trajectories [0, -5, -10, -20] and [0, -5, -10, -15].
C15_AllLossWithStatedExamples ==
  /\ AllLossFormulas
  /\ \A t \in BetTypes :
       (initial_bet = 5 /\ spin = 3 /\ LostAll(t, 3)) =>
         /\ fn = "martingale_strategy" => balances[t] = <<0, -5, -10, -20>>
         /\ fn = "d_alembert_strategy" => balances[t] = <<0, -5, -10, -15>>

\* C15 amended: the two formulas, and for b = 5 and three losing spins the
\* trajectories [0, -5, -15, -35] and [0, -5, -15, -30].
C15_AllLossBalances ==
  /\ AllLossFormulas
  /\ \A t \in BetTypes :
       (initial_bet = 5 /\ spin = 3 /\ LostAll(t, 3)) =>
         /\ fn = "martingale_strategy" => balances[t] = <<0, -5, -15, -35>>
         /\ fn = "d_alembert_strategy" => balances[t] = <<0, -5, -15, -30>>

C15_Witness ==
  /\ fn = "d_alembert_strategy" /\ initial_bet = 5 /\ spin = 3
  /\ LostAll("black", 3)
  /\ balances["black"] = <<0, -5, -15, -30>>

\* a row with the flag of t kept and the other three flags cleared
OwnFlag(row, t) ==
  MkRow(IF t = "red" THEN row["red"] ELSE 0,
        IF t = "black" THEN row["black"] ELSE 0,
        IF t = "even" THEN row["even"] ELSE 0,
        IF t = "odd" THEN row["odd"] ELSE 0)

\* the rows with only the column of t left
RECURSIVE OwnFlags(_, _)
OwnFlags(rows, t) ==
  IF rows = << >> THEN << >>
  ELSE <<OwnFlag(Head(rows), t)>> \o OwnFlags(Tail(rows), t)

\* the trajectory and strategy state of t are those the inner-loop body of
\* t alone produces from the column of t
OwnTrack(t) ==
  CASE fn = "martingale_strategy" ->
         LET r == martingale_strategy_track(
                    [balances |-> Dict(<<0>>), bets |-> Dict(initial_bet)],
                    OwnFlags(Prefix, t), 1, t, initial_bet)
         IN balances[t] = r.balances[t] /\ bets[t] = r.bets[t]
    [] fn = "fibonacci_strategy" ->
         LET r == fibonacci_strategy_track(
                    [balances |-> Dict(<<0>>), sequences |-> Dict(<<1, 1>>),
                     indices |-> Dict(0)],
                    OwnFlags(Prefix, t), 1, t, initial_bet)
         IN /\ balances[t] = r.balances[t]
            /\ indices[t] = r.indices[t]
            /\ sequences[t] = r.sequences[t]
    [] fn = "d_alembert_strategy" ->
         LET r == d_alembert_strategy_track(
                    [balances |-> Dict(<<0>>), bets |-> Dict(initial_bet)],
                    OwnFlags(Prefix, t), 1, t, initial_bet)
         IN balances[t] = r.balances[t] /\ bets[t] = r.bets[t]
    [] fn = "martingale_strategy_with_table_limits" ->
         LET r == martingale_limits_track(
                    [results |-> InitResults(<<CurrentLimit>>),
                     bets |-> Dict(initial_bet)],
                    OwnFlags(Prefix, t), 1, t, initial_bet, CurrentLimit)
         IN /\ results[CurrentLimit][t] = r.results[CurrentLimit][t]
            /\ bets[t] = r.bets[t]
    [] fn = "fibonacci_strategy_with_table_limits" ->
         LET r == fibonacci_limits_track(
                    [results |-> InitResults(<<CurrentLimit>>),
                     sequences |-> Dict(<<1, 1>>), indices |-> Dict(0)],
                    OwnFlags(Prefix, t), 1, t, initial_bet, CurrentLimit)
         IN /\ results[CurrentLimit][t] = r.results[CurrentLimit][t]
            /\ indices[t] = r.indices[t]
            /\ sequences[t] = r.sequences[t]

\* the body of the inner loop for bet type t leaves the trajectory and the
\* strategy state of every other bet type as they were
OthersUntouched(t, row) ==
  CASE fn = "martingale_strategy" ->
         LET r == martingale_strategy_bet([balances |-> balances, bets |-> bets],
                                          row, t, initial_bet)
         IN \A u \in BetTypes \ {t} :
              r.balances[u] = balances[u] /\ r.bets[u] = bets[u]
    [] fn = "fibonacci_strategy" ->
         LET r == fibonacci_strategy_bet(
                    [balances |-> balances, sequences |-> sequences,
                     indices |-> indices], row, t, initial_bet)
         IN \A u \in BetTypes \ {t} :
              /\ r.balances[u] = balances[u]
              /\ r.indices[u] = indices[u]
              /\ r.sequences[u] = sequences[u]
    [] fn = "d_alembert_strategy" ->
         LET r == d_alembert_strategy_bet([balances |-> balances, bets |-> bets],
                                          row, t, initial_bet)
         IN \A u \in BetTypes \ {t} :
              r.balances[u] = balances[u] /\ r.bets[u] = bets[u]
    [] fn = "martingale_strategy_with_table_limits" ->
         LET r == martingale_limits_bet([results |-> results, bets |-> bets],
                                        row, t, initial_bet, CurrentLimit)
         IN \A u \in BetTypes \ {t} :
              /\ r.results[CurrentLimit][u] = results[CurrentLimit][u]
              /\ r.bets[u] = bets[u]
    [] fn = "fibonacci_strategy_with_table_limits" ->
         LET r == fibonacci_limits_bet(
                    [results |-> results, sequences |-> sequences,
                     indices |-> indices], row, t, initial_bet, CurrentLimit)
         IN \A u \in BetTypes \ {t} :
              /\ r.results[CurrentLimit][u] = results[CurrentLimit][u]
              /\ r.indices[u] = indices[u]
              /\ r.sequences[u] = sequences[u]

\* one of the three progressions or a table-limit variant inside a pass
InTrackedRun ==
  \/ fn \in BaseFns \ {"no_strategy"}
  \/ fn \in LimitFns /\ limit_idx >= 1

\* a pass over the rows has ended and the trajectories hold that pass alone:
\* a progression has returned, or a table-limit variant has ended its first
\* pass
PassComplete ==
  \/ fn \in BaseFns \ {"no_strategy"} /\ pc = "returned"
  \/ fn \in LimitFns /\ limit_idx = 1 /\ spin = Len(data)

\* C16: when a pass ends, the trajectory and the strategy state of a bet type are a function
\* of that bet type's own flags alone (they are what the bet type's own
\* update, run alone, yields from its column of flags, whatever the other
\* flags are), and the update of one bet type leaves the other bet types'
\* trajectories and strategy state untouched.
C16_BetTypesIndependent ==
  \A t \in BetTypes :
    /\ PassComplete => OwnTrack(t)
    /\ (InTrackedRun /\ pc = "loop" /\ spin < Len(data)) =>
         OthersUntouched(t, data[spin + 1])

\* red lost four spins while black won them: the red column alone is not
\* the data, and yields the red track
C16_Witness ==
  /\ fn = "fibonacci_strategy" /\ pc = "returned" /\ spin = 4
  /\ LostAll("red", 4) /\ WonAll("black", 4)
  /\ balances["red"] # balances["black"]
  /\ OwnFlags(Prefix, "red") # Prefix
  /\ OwnTrack("red")

\* the wins of t among the first n rows, and the losses that end them
RECURSIVE WinCount(_, _)
WinCount(t, n) ==
  IF n = 0 THEN 0
  ELSE WinCount(t, n - 1) + (IF Win(data[n], t) THEN 1 ELSE 0)

RECURSIVE LosingStreak(_, _)
LosingStreak(t, n) ==
  IF n = 0 \/ Win(data[n], t) THEN 0 ELSE LosingStreak(t, n - 1) + 1

\* C17: in martingale_strategy with initial_bet = b the balance of a bet
\* type after k spins is b * (its wins so far) - b * (2^s - 1), s being the
\* losses since its last win: right after a win, and at the start, it is
\* b * wins.
C17_MartingaleRecovers ==
  fn = "martingale_strategy" =>
    \A t \in BetTypes : \A k \in 0..spin :
      /\ balances[t][k + 1] =
           initial_bet * WinCount(t, k)
             - initial_bet * (2^LosingStreak(t, k) - 1)
      /\ (k = 0 \/ Win(data[k], t)) =>
           balances[t][k + 1] = initial_bet * WinCount(t, k)

\* two losses, a win that recovers them, and another win
C17_Witness ==
  /\ fn = "martingale_strategy" /\ initial_bet = 5 /\ spin = 4
  /\ LostAll("odd", 2) /\ Win(data[3], "odd") /\ Win(data[4], "odd")
  /\ balances["odd"] = <<0, -5, -15, 5, 10>>

\* C18: a table-limit variant returns, for a limit that can never bind
\* (limit >= initial_bet * 2^n for martingale, limit >= initial_bet * F(n+1)
\* for fibonacci, n the number of spins), the trajectories of the
\* unconstrained strategy.
C18_NonBindingLimitCoincides ==
  (fn \in LimitFns /\ pc = "returned") =>
    \A L \in DOMAIN results :
      /\ (/\ fn = "martingale_strategy_with_table_limits"
          /\ L >= initial_bet * 2^Len(data)) =>
           results[L] = martingale_strategy_call(data, initial_bet).balances
      /\ (/\ fn = "fibonacci_strategy_with_table_limits"
          /\ L >= initial_bet * Fib(Len(data) + 1)) =>
           results[L] = fibonacci_strategy_call(data, initial_bet).balances
====
